---- MODULE Spec2Model ----
(***************************************************************************)
(* State machine of the RemoteManagementConnection component               *)
(* (src/src/RemoteManagementConnection.tsx) together with the helpers it   *)
(* calls in src/src/utils.ts: the WebSocket event handlers (onopen,        *)
(* onmessage, onclose, onerror), the heartbeat interval, and the sampling  *)
(* pipeline takeSample -> createSignature -> axios POST.                   *)
(*                                                                         *)
(* The browser runs one task at a time, and the continuation of an `await` *)
(* on an already settled promise runs before the next task.  So one action *)
(* is one task together with the continuations it releases; a handler      *)
(* yields only where it awaits an external event (FileReader load, the     *)
(* capture timer, the crypto call, the HTTP response).                     *)
(***************************************************************************)
EXTENDS Integers, Sequences, FiniteSets

\* ------------------------------------------------------------------ bounds
MaxFrames == 2      \* message events delivered to socket.onmessage
MaxEvents == 1      \* devicemotion events fired while a capture listens
MaxPings == 1       \* heartbeat ticks counted

VARIABLES
    readyState,                 \* the WebSocket: CONNECTING, OPEN, FAILED, CLOSED
    socketConnected,            \* this.state.socketConnected
    remoteManagementConnected,  \* this.state.remoteManagementConnected
    error,                      \* this.state.error
    sample,                     \* this.state.sample
    isSampling,                 \* this.state.isSampling
    socketHeartbeat,            \* this.socketHeartbeat (interval id, -1 = none)
    intervals,                  \* ids of the window intervals still armed
    sent,                       \* calls of sendMessage: sent[i] are those made by
                                \* the i-th onmessage invocation, in call order,
                                \* and sent[0] those made by onopen
    pings,                      \* calls of socket.send("ping") by the heartbeat
    handlers,                   \* one record per invocation of socket.onmessage
    events                      \* devicemotion events fired so far

\* One call of takeSample (utils.ts 27-54), taken on its own.
VARIABLES
    capture
    \* timer       "none", "armed" (the setTimeout is pending) or "elapsed"
    \* listening   newSensorEvent is registered for devicemotion
    \* values      sampleValues, the array the promise resolves with
    \* resolves    calls of resolve
    \* log         every devicemotion event fired, with the timer state then

\* createSignature (utils.ts 56-84): the calls made, with their results.
VARIABLES
    sgLog

\* ClientViews.beforeSampling (client/views.ts 132-174).
VARIABLES
    permission
    \* now         milliseconds since beforeSampling was called
    \* pc          "idle", "sleeping", "waiting" or "returned"
    \* promise     the returned promise: "pending", "resolved", "rejected"
    \* reason      the rejection reason
    \* timeout     permissionTimeout is pending
    \* view        the view switchView showed last
    \* checks      the checkPermissions(true) calls made by onclick

\* MicrophoneSensor (unnamed/part_000).
VARIABLES
    microphone
    \* sensor      hasSensor(): "unknown" before construction
    \* stream      this._stream is set
    \* calls       one record per takeSample call

\* The sampling countdown of ClientViews (client/views.ts 82-116).
VARIABLES
    countdown
    \* samplingInterval   the variable of line 82: 0 is undefined, else the
    \*                    id the last setInterval returned
    \* remaining          remaining[id] is `remaining` in the closure of the
    \*                    samplingStarted handler that created interval id
    \* queue              ids of the intervals still armed, next due first
    \* ticks              runs of an interval callback so far
    \* timeLeft           samplingTimeLeft.textContent, in seconds (-1: unset)
    \* view               the view switchView showed last
    \* loadingText        loadingText.textContent
    \* alerted            the argument of the last alert

connVars == <<readyState, socketConnected, remoteManagementConnected, error,
              sample, isSampling, socketHeartbeat, intervals, sent, pings,
              handlers, events>>
tsVars == <<capture>>
sgVars == <<sgLog>>
pmVars == <<permission>>
mcVars == <<microphone>>
cdVars == <<countdown>>
auxVars == <<tsVars, sgVars, pmVars, mcVars, cdVars>>
vars == <<connVars, auxVars>>

\* ------------------------------------------------------------ message data
NoError == "null"
HelloReason == "device limit reached"
ErrorEvent == "[object Event]"
CloseClean == "[close] Connection closed cleanly"
CloseDied == "[close] Connection died"
HmacKeyEmpty == "Message or hmacKey empty"
NoMeasurementsMsg == "Was not able to capture any measurements"

\* SampleDetails (Models): the fields the component reads.  `present` is
\* data["sample"] !== undefined and `isnull` is a JSON null in that place.
NoSample ==
    [present |-> FALSE, isnull |-> FALSE, hmacKey |-> "", path |-> "",
     label |-> ""]
NullSample ==
    [present |-> TRUE, isnull |-> TRUE, hmacKey |-> "", path |-> "",
     label |-> ""]
SampleDetails(key, path, label) ==
    [present |-> TRUE, isnull |-> FALSE, hmacKey |-> key, path |-> path,
     label |-> label]

\* data["hello"]: {hello: boolean, error?: string}
NoHello == [present |-> FALSE, hello |-> FALSE, error |-> NoError]
HelloAck(ok, err) == [present |-> TRUE, hello |-> ok, error |-> err]

Data(h, s) == [hello |-> h, sample |-> s]

HelloData == {Data(HelloAck(TRUE, NoError), NoSample),
              Data(HelloAck(FALSE, HelloReason), NoSample)}
SampleData == {Data(NoHello, SampleDetails("k1", "/a", "l1")),
               Data(NoHello, SampleDetails("k2", "/b", "l2")),
               Data(NoHello, SampleDetails("", "/a", "l1")),
               Data(NoHello, NullSample)}
NoData == Data(NoHello, NoSample)

\* MessageEvent.data: a string (JSON text, or text that does not parse), a
\* Blob (CBOR that decodes, or bytes that do not), or something else.
TextFrame(d) == [kind |-> "string", valid |-> TRUE, data |-> d]
BadTextFrame == [kind |-> "string", valid |-> FALSE, data |-> NoData]
BlobFrame(d) == [kind |-> "Blob", valid |-> TRUE, data |-> d]
BadBlobFrame == [kind |-> "Blob", valid |-> FALSE, data |-> NoData]
OtherFrame == [kind |-> "other", valid |-> FALSE, data |-> NoData]

Frames ==
    {TextFrame(d) : d \in HelloData \cup SampleData}
    \cup {BadTextFrame, BadBlobFrame, OtherFrame}
    \cup {BlobFrame(Data(HelloAck(TRUE, NoError), NoSample)),
          BlobFrame(Data(NoHello, SampleDetails("k1", "/a", "l1")))}

\* ----------------------------------------------------------------- helpers
\* The argument of one sendMessage call: a message of ./messages, and the
\* reason carried by sampleRequestFailed.
Status(m, r) == [msg |-> m, reason |-> r]

NewHandler(f) ==
    [frame |-> f, pc |-> "parse", outcome |-> "none", details |-> NoSample,
     measurements |-> <<>>, takes |-> 0, signs |-> 0, posts |-> 0,
     signKey |-> "", postPath |-> "", postLabel |-> ""]

Ids == 1..Len(handlers)


SetHandler(hs, i, pc, outcome) ==
    [hs EXCEPT ![i] = [@ EXCEPT !.pc = pc, !.outcome = outcome]]

\* line 72: !msg || !msg.hmacKey
HmacKeyMissing_nullOnly(msg) == msg.isnull
HmacKeyMissing(msg) == msg.isnull \/ msg.hmacKey = ""

\* line 91: sampleData.measurements.length <= 0
NoMeasurements_strict(m) == Len(m) < 0
NoMeasurements(m) == Len(m) <= 0

\* lines 77-84: sendMessage(sampleRequestReceived); setState; sendMessage(sampleStarted)
AcceptStatuses_noStarted == <<Status("sampleRequestReceived", "")>>
AcceptStatuses ==
    <<Status("sampleRequestReceived", ""), Status("sampleStarted", "")>>

\* sendMessage (131-133), called by invocation i
Send(i, m, r) == [sent EXCEPT ![i] = Append(@, Status(m, r))]

\* The `details` argument of uploadSample (lines 85, 96-97): the copy
\* sampleDetails = { ...msg } made by the invocation itself.
UploadDetails_fromState(i) == sample
UploadDetails(i) == handlers[i].details

\* line 109: clearInterval(this.socketHeartbeat)
ClearHeartbeat_forgotten == intervals
ClearHeartbeat == intervals \ {socketHeartbeat}

\* -------------------------------------------------------------------- Init
\* The state set by the constructor; the socket is being opened.
Init ==
    /\ readyState = "CONNECTING"
    /\ socketConnected = FALSE
    /\ remoteManagementConnected = FALSE
    /\ error = NoError
    /\ sample = NoSample
    /\ isSampling = FALSE
    /\ socketHeartbeat = -1
    /\ intervals = {}
    /\ sent = [i \in 0..MaxFrames |-> <<>>]
    /\ pings = 0
    /\ handlers = <<>>
    /\ events = 0
    /\ capture = [timer |-> "none", listening |-> FALSE, values |-> <<>>,
                  resolves |-> 0, log |-> <<>>]
    /\ sgLog = <<>>
    /\ permission = [now |-> 0, pc |-> "idle", promise |-> "pending",
                     reason |-> "", timeout |-> FALSE, view |-> "loading",
                     checks |-> <<>>]
    /\ microphone = [sensor |-> "unknown", stream |-> FALSE, calls |-> <<>>]
    /\ countdown = [samplingInterval |-> 0, remaining |-> <<>>, queue |-> <<>>,
                    ticks |-> 0, timeLeft |-> -1, view |-> "sampling",
                    loadingText |-> "", alerted |-> ""]

\* Between the error event and the close event of one failed connection the
\* browser runs nothing else: both are fired from the same task.
Running == readyState # "FAILED"

\* ---------------------------------------------------------- socket.onopen
OnOpen ==
    /\ readyState = "CONNECTING"
    /\ readyState' = "OPEN"
    /\ socketConnected' = TRUE
    /\ sent' = Send(0, "hello", "")
    /\ socketHeartbeat' = 1
    /\ intervals' = intervals \cup {1}
    /\ UNCHANGED <<remoteManagementConnected, error, sample, isSampling, pings,
                   handlers, events>>
    /\ UNCHANGED auxVars

\* The interval callback of onopen: this.socket.send("ping").
HeartbeatTick ==
    /\ Running
    /\ intervals # {}
    /\ pings < MaxPings
    /\ pings' = pings + 1
    /\ UNCHANGED <<readyState, socketConnected, remoteManagementConnected, error,
                   sample, isSampling, socketHeartbeat, intervals, sent, handlers,
                   events>>
    /\ UNCHANGED auxVars

\* -------------------------------------------------------- socket.onmessage
\* Lines 62-88 for invocation i with decoded data d, up to `await takeSample`;
\* hs is the handler list the invocation is part of.
ProcessData(i, hs, d) ==
    /\ remoteManagementConnected' =
           IF d.hello.present THEN d.hello.hello ELSE remoteManagementConnected
    /\ error' = IF d.hello.present THEN d.hello.error ELSE error
    /\ IF ~d.sample.present
       THEN /\ handlers' = SetHandler(hs, i, "done", "noSample")
            /\ UNCHANGED <<sent, sample, isSampling>>
       ELSE IF HmacKeyMissing(d.sample)
       THEN /\ sent' = Send(i, "sampleRequestFailed", HmacKeyEmpty)
            /\ handlers' = SetHandler(hs, i, "done", "rejected")
            /\ UNCHANGED <<sample, isSampling>>
       ELSE /\ sent' = [sent EXCEPT ![i] = @ \o AcceptStatuses]
            /\ sample' = d.sample
            /\ isSampling' = TRUE
            /\ handlers' = [hs EXCEPT ![i] =
                   [@ EXCEPT !.pc = "capturing", !.details = d.sample,
                             !.takes = @ + 1]]

\* A message event: parseMessage (utils.ts 18-25) and, for a text frame, the
\* rest of the handler in the same task.
OnMessage(f) ==
    /\ readyState = "OPEN"
    /\ Len(handlers) < MaxFrames
    /\ LET i == Len(handlers) + 1
           hs == Append(handlers, NewHandler(f))
       IN  CASE f.kind = "Blob" ->
                  \* readFile: the FileReader loads asynchronously
                  /\ handlers' = SetHandler(hs, i, "reading", "none")
                  /\ UNCHANGED <<remoteManagementConnected, error, sample,
                                 isSampling, sent>>
             [] f.kind = "string" /\ f.valid -> ProcessData(i, hs, f.data)
             [] f.kind = "string" /\ ~f.valid ->
                  \* JSON.parse throws: the async handler rejects
                  /\ handlers' = SetHandler(hs, i, "done", "parseError")
                  /\ UNCHANGED <<remoteManagementConnected, error, sample,
                                 isSampling, sent>>
             [] OTHER ->
                  \* parseMessage returns null: `if (!data) return`
                  /\ handlers' = SetHandler(hs, i, "done", "dropped")
                  /\ UNCHANGED <<remoteManagementConnected, error, sample,
                                 isSampling, sent>>
    /\ UNCHANGED <<readyState, socketConnected, socketHeartbeat, intervals, pings,
                   events>>
    /\ UNCHANGED auxVars

ReadDone_setsError(i) ==
    /\ readyState # "FAILED"
    /\ i \in Ids
    /\ handlers[i].pc = "reading"
    /\ IF handlers[i].frame.valid
       THEN ProcessData(i, handlers, handlers[i].frame.data)
       ELSE /\ handlers' = SetHandler(handlers, i, "done", "decodeError")
            /\ error' = "decode error"
            /\ UNCHANGED <<remoteManagementConnected, sample, isSampling, sent>>
    /\ UNCHANGED <<readyState, socketConnected, socketHeartbeat, intervals, pings,
                   events>>
    /\ UNCHANGED auxVars

\* reader.onload of readFile (utils.ts 7-12): cbor.decode resolves the promise
\* and the handler continues; when cbor.decode throws inside onload neither
\* resolve nor reject is reached and the handler never continues.
ReadDone(i) ==
    /\ Running
    /\ i \in Ids
    /\ handlers[i].pc = "reading"
    /\ IF handlers[i].frame.valid
       THEN ProcessData(i, handlers, handlers[i].frame.data)
       ELSE /\ handlers' = SetHandler(handlers, i, "hung", "decodeError")
            /\ UNCHANGED <<remoteManagementConnected, error, sample, isSampling,
                           sent>>
    /\ UNCHANGED <<readyState, socketConnected, socketHeartbeat, intervals, pings,
                   events>>
    /\ UNCHANGED auxVars

\* newSensorEvent of takeSample (utils.ts 32-42): every capture still
\* listening records an event that carries accelerationIncludingGravity.
MotionEvent(hasAcceleration) ==
    /\ Running
    /\ events < MaxEvents
    /\ \E i \in Ids : handlers[i].pc = "capturing"
    /\ events' = events + 1
    /\ handlers' = [i \in Ids |->
           IF handlers[i].pc = "capturing" /\ hasAcceleration
           THEN [handlers[i] EXCEPT !.measurements = Append(@, events + 1)]
           ELSE handlers[i]]
    /\ UNCHANGED <<readyState, socketConnected, remoteManagementConnected, error,
                   sample, isSampling, socketHeartbeat, intervals, sent, pings>>
    /\ UNCHANGED auxVars

\* The setTimeout of takeSample elapses (utils.ts 46-52) and the handler
\* continues at line 90: no measurements, or uploadSample up to
\* `await createSignature`.
SampleTimeout(i) ==
    /\ Running
    /\ i \in Ids
    /\ handlers[i].pc = "capturing"
    /\ IF NoMeasurements(handlers[i].measurements)
       THEN /\ sent' = Send(i, "sampleRequestFailed", NoMeasurementsMsg)
            /\ handlers' = SetHandler(handlers, i, "done", "empty")
       ELSE /\ handlers' = [handlers EXCEPT ![i] =
                   [@ EXCEPT !.pc = "signing", !.signs = @ + 1,
                             !.signKey = UploadDetails(i).hmacKey]]
            /\ UNCHANGED sent
    /\ UNCHANGED <<readyState, socketConnected, remoteManagementConnected, error,
                   sample, isSampling, socketHeartbeat, intervals, pings, events>>
    /\ UNCHANGED auxVars

\* createSignature settles (uploadSample 141-152): on success sampleUploading
\* is sent and the POST is issued; when it throws, the catch block alerts,
\* uploadSample returns and lines 100-103 run.
SignDone(i, ok) ==
    /\ Running
    /\ i \in Ids
    /\ handlers[i].pc = "signing"
    /\ IF ok
       THEN /\ sent' = Send(i, "sampleUploading", "")
            /\ handlers' = [handlers EXCEPT ![i] =
                   [@ EXCEPT !.pc = "posting", !.posts = @ + 1,
                             !.postPath = UploadDetails(i).path,
                             !.postLabel = UploadDetails(i).label]]
            /\ UNCHANGED <<sample, isSampling>>
       ELSE /\ handlers' = SetHandler(handlers, i, "done", "signFailed")
            /\ sample' = handlers[i].details
            /\ isSampling' = FALSE
            /\ UNCHANGED sent
    /\ UNCHANGED <<readyState, socketConnected, remoteManagementConnected, error,
                   socketHeartbeat, intervals, pings, events>>
    /\ UNCHANGED auxVars

PostDone_setsError(i, ok) ==
    /\ readyState # "FAILED"
    /\ i \in Ids
    /\ handlers[i].pc = "posting"
    /\ IF ok
       THEN /\ sent' = Send(i, "sampleFinished", "")
            /\ handlers' = SetHandler(handlers, i, "done", "finished")
            /\ UNCHANGED error
       ELSE /\ handlers' = SetHandler(handlers, i, "done", "postFailed")
            /\ error' = "upload failed"
            /\ UNCHANGED sent
    /\ sample' = handlers[i].details
    /\ isSampling' = FALSE
    /\ UNCHANGED <<readyState, socketConnected, remoteManagementConnected,
                   socketHeartbeat, intervals, pings, events>>
    /\ UNCHANGED auxVars

\* The axios POST settles (uploadSample 143-156), then lines 100-103.
PostDone(i, ok) ==
    /\ Running
    /\ i \in Ids
    /\ handlers[i].pc = "posting"
    /\ IF ok
       THEN /\ sent' = Send(i, "sampleFinished", "")
            /\ handlers' = SetHandler(handlers, i, "done", "finished")
       ELSE /\ handlers' = SetHandler(handlers, i, "done", "postFailed")
            /\ UNCHANGED sent
    /\ sample' = handlers[i].details
    /\ isSampling' = FALSE
    /\ UNCHANGED <<readyState, socketConnected, remoteManagementConnected, error,
                   socketHeartbeat, intervals, pings, events>>
    /\ UNCHANGED auxVars

\* --------------------------------------------------------- socket.onclose
\* A close event: clean or unclean on an open socket, unclean after an error.
OnClose(wasClean) ==
    /\ \/ readyState = "OPEN"
       \/ readyState = "FAILED" /\ ~wasClean
    /\ readyState' = "CLOSED"
    /\ intervals' = ClearHeartbeat
    /\ socketConnected' = FALSE
    /\ remoteManagementConnected' = FALSE
    /\ error' = IF wasClean THEN CloseClean ELSE CloseDied
    /\ UNCHANGED <<sample, isSampling, socketHeartbeat, sent, pings, handlers,
                   events>>
    /\ UNCHANGED auxVars

\* --------------------------------------------------------- socket.onerror
\* An error event, while connecting or on the open socket; the close event
\* follows.
OnError ==
    /\ readyState \in {"CONNECTING", "OPEN"}
    /\ readyState' = "FAILED"
    /\ socketConnected' = FALSE
    /\ remoteManagementConnected' = FALSE
    /\ error' = ErrorEvent
    /\ UNCHANGED <<sample, isSampling, socketHeartbeat, intervals, sent, pings,
                   handlers, events>>
    /\ UNCHANGED auxVars

Next ==
    \/ OnOpen
    \/ HeartbeatTick
    \/ \E f \in Frames : OnMessage(f)
    \/ \E i \in 1..MaxFrames : ReadDone(i)
    \/ \E b \in BOOLEAN : MotionEvent(b)
    \/ \E i \in 1..MaxFrames : SampleTimeout(i)
    \/ \E i \in 1..MaxFrames, ok \in BOOLEAN : SignDone(i, ok)
    \/ \E i \in 1..MaxFrames, ok \in BOOLEAN : PostDone(i, ok)
    \/ \E c \in BOOLEAN : OnClose(c)
    \/ OnError

Spec == Init /\ [][Next]_vars

\* ============================================== takeSample (utils.ts)
MaxMotion == 3      \* devicemotion events fired around one capture

\* A coordinate of accelerationIncludingGravity: a number or null.
Coords == {[null |-> TRUE, v |-> 0], [null |-> FALSE, v |-> 0],
           [null |-> FALSE, v |-> 7]}
\* A DeviceMotionEvent: without accelerationIncludingGravity, or with it (y
\* and z are null).
MotionEvents ==
    {[has |-> FALSE, x |-> [null |-> TRUE, v |-> 0]]}
    \cup {[has |-> TRUE, x |-> c] : c \in Coords}

\* lines 35-37: `coordinate || 0`
OrZero(c) == IF c.null \/ c.v = 0 THEN 0 ELSE c.v
\* lines 34-38: the measurement built from an event
Measurement(e) == <<OrZero(e.x), 0, 0>>

\* line 47: removeEventListener leaves no listener behind
ListenerAfterTimeout_kept == TRUE
ListenerAfterTimeout == FALSE

\* lines 28-44, 46: the call registers the listener and starts the timer.
TakeSampleCall ==
    /\ capture.timer = "none"
    /\ capture' = [capture EXCEPT !.timer = "armed", !.listening = TRUE]
    /\ UNCHANGED <<connVars, sgVars, pmVars, mcVars, cdVars>>

\* lines 32-42: a devicemotion event, at any time; newSensorEvent runs when
\* it is registered.
DeviceMotion(e) ==
    /\ Len(capture.log) < MaxMotion
    /\ capture' = [capture EXCEPT
           !.log = Append(@, [event |-> e, during |-> capture.timer = "armed"]),
           !.values = IF capture.listening /\ e.has
                      THEN Append(@, Measurement(e))
                      ELSE @]
    /\ UNCHANGED <<connVars, sgVars, pmVars, mcVars, cdVars>>

\* lines 46-52: the timer elapses.
TakeSampleTimeout ==
    /\ capture.timer = "armed"
    /\ capture' = [capture EXCEPT !.timer = "elapsed",
                                  !.listening = ListenerAfterTimeout,
                                  !.resolves = @ + 1]
    /\ UNCHANGED <<connVars, sgVars, pmVars, mcVars, cdVars>>

NextCapture ==
    \/ TakeSampleCall
    \/ \E e \in MotionEvents : DeviceMotion(e)
    \/ TakeSampleTimeout

SpecCapture == Init /\ [][NextCapture]_vars

\* ========================================= createSignature (utils.ts)
MaxSignCalls == 2   \* calls of createSignature

\* Number.prototype.toString(16): lowercase digits, no leading zero.
HexDigits == <<"0", "1", "2", "3", "4", "5", "6", "7", "8", "9",
               "a", "b", "c", "d", "e", "f">>
RECURSIVE ToString16(_)
ToString16(x) ==
    IF x < 16 THEN <<HexDigits[x + 1]>>
    ELSE Append(ToString16(x \div 16), HexDigits[(x % 16) + 1])

\* line 82: ("00" + x.toString(16)).slice(-2)
HexByte_noPad(x) == ToString16(x)
HexByte(x) ==
    LET padded == <<"0", "0">> \o ToString16(x)
    IN  SubSeq(padded, Len(padded) - 1, Len(padded))

\* lines 80-83: map over the digest bytes, then join("")
RECURSIVE ToHex(_)
ToHex(bytes) ==
    IF bytes = <<>> THEN <<>>
    ELSE HexByte(bytes[1]) \o ToHex(SubSeq(bytes, 2, Len(bytes)))

RECURSIVE Sum(_)
Sum(bytes) ==
    IF bytes = <<>> THEN 0 ELSE bytes[1] + Sum(SubSeq(bytes, 2, Len(bytes)))

\* TextEncoder.encode of a hex digit (lines 61, 77): its character code.
CharCode(c) ==
    LET k == CHOOSE n \in 1..16 : HexDigits[n] = c
    IN  IF k <= 10 THEN 47 + k ELSE 86 + k
\* enc.encode(JSON.stringify(data)) (line 77), for a data message reduced to
\* its signature field and its values.
Encode(data) == [k \in 1..Len(data.signature) |-> CharCode(data.signature[k])]
                \o data.values

\* crypto.subtle.sign("HMAC", key, bytes) (lines 74-78).  The platform's
\* HMAC-SHA-256 is replaced by a two-byte keyed checksum: a function of the
\* key bytes and the message bytes, like the digest it stands for.
Hmac(key, bytes) ==
    <<(Sum(key) + Sum(bytes)) % 256,
      (Sum(key) * 31 + Len(bytes) * 7 + Sum(bytes) * 3) % 256>>

\* enc.encode(hmac_key) (line 64) of the keys "k1", "k2" and "a"
SignKeys == {<<107, 49>>, <<107, 50>>, <<97>>}
SignValues == {<<>>, <<1>>, <<2, 3>>, <<200, 55>>}

\* lines 56-84
CreateSignatureResult(key, data) == ToHex(Hmac(key, Encode(data)))

\* A call of createSignature.  The data carries an empty signature, or one
\* that an earlier call returned (uploadSample stores the result in
\* data.signature).
CreateSignature(key, data) ==
    /\ Len(sgLog) < MaxSignCalls
    /\ sgLog' = Append(sgLog, [key |-> key, data |-> data,
                               signature |-> CreateSignatureResult(key, data)])
    /\ UNCHANGED <<connVars, tsVars, pmVars, mcVars, cdVars>>

NextSign ==
    \E key \in SignKeys, v \in SignValues,
       sig \in {<<>>} \cup {sgLog[k].signature : k \in 1..Len(sgLog)} :
        CreateSignature(key, [signature |-> sig, values |-> v])

SpecSign == Init /\ [][NextSign]_vars

\* ================================= beforeSampling (client/views.ts)
MaxClicks == 2              \* clicks on the grant-permissions button
PermissionTimeoutMs == 60000
SleepMs == 2000

\* The instants the clock is observed at.
TimePoints == {1000, SleepMs, PermissionTimeoutMs - 1, PermissionTimeoutMs,
               PermissionTimeoutMs + 1000}

SensorNotFound == "Cannot find sensor"
TimedOut == "User did not grant permissions within one minute"
UserRejected == "User has rejected accelerometer permissions"
CheckFailed == "checkPermissions rejected"

\* resolve / reject of a promise: only the first call settles it.
Resolve(p) ==
    IF p.promise = "pending" THEN [p EXCEPT !.promise = "resolved"] ELSE p
Reject(p, reason) ==
    IF p.promise = "pending"
    THEN [p EXCEPT !.promise = "rejected", !.reason = reason]
    ELSE p

\* line 170: clearInterval(permissionTimeout) cancels the pending timeout
\* (timeouts and intervals share one list of timers)
ClearPermissionTimeout_missing == permission.timeout
ClearPermissionTimeout == FALSE

\* lines 132-156: the call, with the result of the sensor lookup and of
\* checkPermissions(false).
BeforeSampling(found, granted) ==
    /\ permission.pc = "idle"
    /\ permission' =
           IF ~found
           THEN Reject([permission EXCEPT !.pc = "returned"], SensorNotFound)
           ELSE IF granted
           THEN [permission EXCEPT !.pc = "sleeping", !.view = "sampling"]
           ELSE [permission EXCEPT !.pc = "waiting", !.view = "permission",
                                   !.timeout = TRUE]
    /\ UNCHANGED <<connVars, tsVars, sgVars, mcVars, cdVars>>

\* Time passes, up to the next pending timer.
Advance(t) ==
    /\ permission.pc # "idle"
    /\ t > permission.now
    /\ permission.pc = "sleeping" => t <= SleepMs
    /\ permission.timeout => t <= PermissionTimeoutMs
    /\ permission' = [permission EXCEPT !.now = t]
    /\ UNCHANGED <<connVars, tsVars, sgVars, mcVars, cdVars>>

\* lines 144-145, 176-178: sleep(2000) is over
SleepDone ==
    /\ permission.pc = "sleeping"
    /\ permission.now >= SleepMs
    /\ permission' = Resolve([permission EXCEPT !.pc = "returned"])
    /\ UNCHANGED <<connVars, tsVars, sgVars, mcVars, cdVars>>

\* lines 153-155: the setTimeout callback
PermissionTimeout ==
    /\ permission.timeout
    /\ permission.now >= PermissionTimeoutMs
    /\ permission' = Reject([permission EXCEPT !.timeout = FALSE], TimedOut)
    /\ UNCHANGED <<connVars, tsVars, sgVars, mcVars, cdVars>>

\* lines 157-171: grantPermissionsBtn.onclick.  checkPermissions(true) will
\* answer true or false, reject, or stay pending (outcome "never").
GrantClick(outcome) ==
    /\ permission.pc = "waiting"
    /\ Len(permission.checks) < MaxClicks
    /\ permission' = [permission EXCEPT
           !.checks = Append(@, [outcome |-> outcome, at |-> permission.now,
                                 settled |-> FALSE]),
           !.timeout = ClearPermissionTimeout]
    /\ UNCHANGED <<connVars, tsVars, sgVars, mcVars, cdVars>>

\* lines 160-168: the promise of checkPermissions(true) settles
CheckDone(k) ==
    /\ k \in 1..Len(permission.checks)
    /\ ~permission.checks[k].settled
    /\ permission.checks[k].outcome # "never"
    /\ LET p == [permission EXCEPT !.checks[k].settled = TRUE]
       IN  permission' =
               CASE p.checks[k].outcome = "true" ->
                      Resolve([p EXCEPT !.view = "sampling"])
                 [] p.checks[k].outcome = "false" -> Reject(p, UserRejected)
                 [] OTHER -> Reject(p, CheckFailed)
    /\ UNCHANGED <<connVars, tsVars, sgVars, mcVars, cdVars>>

NextPermission ==
    \/ \E found, granted \in BOOLEAN : BeforeSampling(found, granted)
    \/ \E t \in TimePoints : Advance(t)
    \/ SleepDone
    \/ PermissionTimeout
    \/ \E o \in {"true", "false", "error", "never"} : GrantClick(o)
    \/ \E k \in 1..MaxClicks : CheckDone(k)

SpecPermission == Init /\ [][NextPermission]_vars

\* ================================ MicrophoneSensor (unnamed/part_000)
MaxMicCalls == 3    \* calls of MicrophoneSensor.takeSample

NoStream == "No audio stream"
WrongFrequency == "Microphone only supports sampling at 16000Hz"
NoContext == "No audio context"

\* lines 25-33: the constructor; the audio context exists when hasSensor()
MicConstruct(hasSensor) ==
    /\ microphone.sensor = "unknown"
    /\ microphone' = [microphone EXCEPT
           !.sensor = IF hasSensor THEN "present" ELSE "absent"]
    /\ UNCHANGED <<connVars, tsVars, sgVars, pmVars, cdVars>>

\* lines 35-48: checkPermissions(true) on a present sensor, once
\* getUserMedia has answered with a stream
MicStreamGranted ==
    /\ microphone.sensor = "present"
    /\ ~microphone.stream
    /\ microphone' = [microphone EXCEPT !.stream = TRUE]
    /\ UNCHANGED <<connVars, tsVars, sgVars, pmVars, cdVars>>

\* lines 58-82: takeSample rejects at once or starts recording and its timer
MicTakeSample(frequency) ==
    /\ microphone.sensor # "unknown"
    /\ Len(microphone.calls) < MaxMicCalls
    /\ microphone' = [microphone EXCEPT !.calls = Append(@,
           IF ~microphone.stream THEN [pc |-> "rejected", reason |-> NoStream]
           ELSE IF frequency # 16000
           THEN [pc |-> "rejected", reason |-> WrongFrequency]
           ELSE IF microphone.sensor # "present"
           THEN [pc |-> "rejected", reason |-> NoContext]
           ELSE [pc |-> "recording", reason |-> ""])]
    /\ UNCHANGED <<connVars, tsVars, sgVars, pmVars, cdVars>>

\* lines 84-114: the setTimeout callback: `if (!this._stream) return`,
\* otherwise the recorder is stopped and exportWAV is started
MicTimeout(i) ==
    /\ i \in 1..Len(microphone.calls)
    /\ microphone.calls[i].pc = "recording"
    /\ microphone' = [microphone EXCEPT !.calls[i].pc =
           IF ~microphone.stream THEN "returned" ELSE "exporting"]
    /\ UNCHANGED <<connVars, tsVars, sgVars, pmVars, cdVars>>

\* lines 94-113: the exportWAV callback clears the stream and resolves
MicExported(i) ==
    /\ i \in 1..Len(microphone.calls)
    /\ microphone.calls[i].pc = "exporting"
    /\ microphone' = [microphone EXCEPT !.stream = FALSE,
                                        !.calls[i].pc = "resolved"]
    /\ UNCHANGED <<connVars, tsVars, sgVars, pmVars, cdVars>>

NextMicrophone ==
    \/ \E b \in BOOLEAN : MicConstruct(b)
    \/ MicStreamGranted
    \/ \E f \in {16000, 8000} : MicTakeSample(f)
    \/ \E i \in 1..MaxMicCalls : MicTimeout(i)
    \/ \E i \in 1..MaxMicCalls : MicExported(i)

SpecMicrophone == Init /\ [][NextMicrophone]_vars

\* ============================ sampling countdown (client/views.ts)
MaxStarts == 2      \* samplingStarted events
MaxTicks == 4       \* runs of an interval callback

\* `length` of a samplingStarted event, in milliseconds
Lengths == {0, 1000, 2500}
TickMs == 1000

\* clearInterval(id): the interval leaves the list of armed timers;
\* undefined, and the id of an interval already cleared, change nothing.
RECURSIVE Without(_, _)
Without(q, id) ==
    IF q = <<>> THEN <<>>
    ELSE IF q[1] = id THEN Without(Tail(q), id)
    ELSE <<q[1]>> \o Without(Tail(q), id)
ClearInterval(q, id) == Without(q, id)

\* lines 84-98: the samplingStarted handler.  setInterval returns an id no
\* earlier timer has; the new interval is due one period from now, after
\* every interval already armed.
SamplingStarted(length) ==
    /\ Len(countdown.remaining) < MaxStarts
    /\ LET id == Len(countdown.remaining) + 1
       IN  countdown' = [countdown EXCEPT
               !.remaining = Append(@, length),
               !.timeLeft = length \div TickMs,
               !.samplingInterval = id,
               !.queue = Append(@, id)]
    /\ UNCHANGED <<connVars, tsVars, sgVars, pmVars, mcVars>>

\* lines 90-97: the callback of the interval that is due next.  All
\* intervals have the same period, so the one that ran is due last again;
\* line 93 clears the interval samplingInterval refers to at that moment.
CountdownTick ==
    /\ countdown.queue # <<>>
    /\ countdown.ticks < MaxTicks
    /\ LET id == Head(countdown.queue)
           left == countdown.remaining[id] - TickMs
           q == Append(Tail(countdown.queue), id)
       IN  countdown' = [countdown EXCEPT
               !.ticks = @ + 1,
               !.remaining[id] = left,
               !.queue = IF left < 0
                         THEN ClearInterval(q, countdown.samplingInterval)
                         ELSE q,
               !.timeLeft = IF left < 0 THEN @ ELSE left \div TickMs]
    /\ UNCHANGED <<connVars, tsVars, sgVars, pmVars, mcVars>>

\* lines 99-104
SamplingUploading ==
    /\ countdown' = [countdown EXCEPT
           !.queue = ClearInterval(@, countdown.samplingInterval),
           !.view = "loading",
           !.loadingText = "Uploading..."]
    /\ UNCHANGED <<connVars, tsVars, sgVars, pmVars, mcVars>>

\* lines 105-110
SamplingProcessing ==
    /\ countdown' = [countdown EXCEPT
           !.queue = ClearInterval(@, countdown.samplingInterval),
           !.view = "loading",
           !.loadingText = "Processing..."]
    /\ UNCHANGED <<connVars, tsVars, sgVars, pmVars, mcVars>>

\* lines 111-113
SamplingFinished ==
    /\ countdown' = [countdown EXCEPT !.view = "connected"]
    /\ UNCHANGED <<connVars, tsVars, sgVars, pmVars, mcVars>>

\* lines 114-116
SamplingError(err) ==
    /\ countdown' = [countdown EXCEPT !.alerted = err]
    /\ UNCHANGED <<connVars, tsVars, sgVars, pmVars, mcVars>>

NextCountdown ==
    \/ \E length \in Lengths : SamplingStarted(length)
    \/ CountdownTick
    \/ SamplingUploading
    \/ SamplingProcessing
    \/ SamplingFinished
    \/ \E err \in {"e1", "e2"} : SamplingError(err)

SpecCountdown == Init /\ [][NextCountdown]_vars

\* ======================================================== properties
\* The messages invocation i passed to sendMessage, in call order.
Msgs(i) == [k \in 1..Len(sent[i]) |-> sent[i][k].msg]
Count(i, m) == Cardinality({k \in 1..Len(sent[i]) : sent[i][k].msg = m})

\* Invocation i carried a sample request that passed line 72 and started a
\* capture; it is in flight until its pipeline has ended.
Accepted(i) == i \in Ids /\ handlers[i].takes > 0
InFlight(i) == i \in Ids /\ handlers[i].pc \in {"capturing", "signing", "posting"}

\* The decoded data of invocation i has reached line 62.
Processed(i) ==
    /\ i \in Ids
    /\ handlers[i].frame.kind \in {"string", "Blob"}
    /\ handlers[i].frame.valid
    /\ handlers[i].pc # "reading"

\* C1: at most one sampling pipeline (capture, signing or upload) is in
\* flight at any time; a sample request that arrives while another is in
\* flight starts no second capture.
C1_SingleFlight == Cardinality({i \in Ids : InFlight(i)}) <= 1

Degraded == ~remoteManagementConnected /\ error = HelloReason
\* C2: a hello-ack with connected=false and a reason leaves the connection
\* degraded (remoteManagementConnected false, error = reason), and while it
\* is degraded no sample request is processed: no invocation sends
\* sampleRequestReceived or starts a capture.
C2_DegradedBlocksRequests ==
    [][/\ \A i \in 1..MaxFrames :
             (/\ Processed(i)' /\ ~Processed(i)
              /\ handlers'[i].frame.data.hello = HelloAck(FALSE, HelloReason))
             => Degraded'
       /\ Degraded =>
             \A i \in 1..MaxFrames :
                 (Accepted(i)' => Accepted(i))
    ]_vars

Successful(i) ==
    /\ handlers[i].pc = "done"
    /\ handlers[i].details.hmacKey # ""
    /\ Len(handlers[i].measurements) >= 1
    /\ handlers[i].outcome = "finished"
\* C3: a successful cycle (non-empty hmacKey, at least one measurement,
\* signing and upload succeed) sends exactly sampleRequestReceived,
\* sampleStarted, sampleUploading, sampleFinished, in that order.
C3_SuccessOrder ==
    \A i \in Ids :
        Successful(i) =>
            Msgs(i) = <<"sampleRequestReceived", "sampleStarted",
                        "sampleUploading", "sampleFinished">>
C3_Witness == \E i \in Ids : Successful(i)

UploadFailed(i) == handlers[i].outcome \in {"signFailed", "postFailed"}
\* C4: when the upload step fails (createSignature throws, or the POST
\* fails) sampleRequestFailed is sent for that request, sampleFinished is
\* not, and the POST is not issued again.
C4_UploadFailureReported ==
    \A i \in Ids :
        UploadFailed(i) =>
            /\ Count(i, "sampleRequestFailed") >= 1
            /\ Count(i, "sampleFinished") = 0
            /\ handlers[i].posts <= 1

KeyMissing(i) ==
    /\ Processed(i)
    /\ handlers[i].frame.data.sample.present
    /\ \/ handlers[i].frame.data.sample.isnull
       \/ handlers[i].frame.data.sample.hmacKey = ""
C5_Inv ==
    \A i \in Ids :
        KeyMissing(i) =>
            /\ Msgs(i) = <<"sampleRequestFailed">>
            /\ handlers[i].pc = "done"
            /\ handlers[i].takes = 0
            /\ handlers[i].signs = 0
            /\ handlers[i].posts = 0
C5_Step ==
    \A i \in 1..MaxFrames :
        (KeyMissing(i)' /\ ~KeyMissing(i)) =>
            (isSampling' = isSampling /\ sample' = sample)
\* C5: a sample request whose hmacKey is empty or missing yields exactly one
\* sampleRequestFailed and nothing else (no capture, no signing, no POST),
\* and handling it leaves isSampling and sample unchanged.
C5_EmptyHmacKey == []C5_Inv /\ [][C5_Step]_vars
C5_Witness ==
    \E i \in Ids : KeyMissing(i) /\ handlers[i].frame.data.sample.hmacKey = ""
                   /\ ~handlers[i].frame.data.sample.isnull

CaptureEndedEmpty(i) ==
    /\ Accepted(i)
    /\ handlers[i].pc # "capturing"
    /\ handlers[i].measurements = <<>>
\* C6: a capture that ends with zero measurements yields exactly one
\* sampleRequestFailed and no upload attempt: createSignature and the POST
\* are not called, sampleUploading and sampleFinished are not sent.
C6_EmptyCapture ==
    \A i \in Ids :
        CaptureEndedEmpty(i) =>
            /\ Count(i, "sampleRequestFailed") = 1
            /\ Count(i, "sampleUploading") = 0
            /\ Count(i, "sampleFinished") = 0
            /\ handlers[i].signs = 0
            /\ handlers[i].posts = 0
C6_Witness == \E i \in Ids : CaptureEndedEmpty(i)

\* C7: once no capture or upload is pending the session is idle again:
\* isSampling is false, whichever way the accepted requests ended.
C7_ReturnsToIdle ==
    (\A i \in Ids : ~InFlight(i)) => ~isSampling

CycleRuns ==
    {<<"sampleRequestReceived", "sampleStarted", "sampleUploading",
       "sampleFinished">>,
     <<"sampleRequestReceived", "sampleStarted", "sampleUploading",
       "sampleRequestFailed">>,
     <<"sampleRequestReceived", "sampleStarted", "sampleRequestFailed">>}
IsPrefix(s, t) == Len(s) <= Len(t) /\ SubSeq(t, 1, Len(s)) = s
\* C8: the statuses of one accepted request form a run received, started,
\* then (uploading, finished) or failed; when the cycle has ended exactly one
\* terminal status (sampleFinished or sampleRequestFailed) has been sent.
C8_OneTerminalStatus ==
    \A i \in Ids :
        Accepted(i) =>
            /\ \E run \in CycleRuns : IsPrefix(Msgs(i), run)
            /\ handlers[i].pc = "done" => Msgs(i) \in CycleRuns

\* C9: after the close event, clean or unclean, the heartbeat interval is
\* cancelled and no further ping is sent.
C9_HeartbeatStops ==
    /\ [](readyState = "CLOSED" => socketHeartbeat \notin intervals)
    /\ [][readyState = "CLOSED" => pings' = pings]_vars
C9_Witness ==
    readyState = "CLOSED" /\ socketHeartbeat # -1 /\ pings > 0
    /\ error = CloseDied

\* C10: whenever the error handler or the close handler has marked a socket
\* that had been open as not connected, the heartbeat interval is cancelled.
C10_HeartbeatCancelledOnError ==
    (~socketConnected /\ socketHeartbeat # -1) => socketHeartbeat \notin intervals

\* C11: inbound frames are processed in arrival order: the data of a frame
\* reaches the handler body only after every earlier decodable frame has,
\* also when the earlier one is a Blob decoded asynchronously.
C11_ArrivalOrder ==
    \A i, j \in Ids :
        (i < j /\ Processed(j) /\ handlers[i].frame.valid) =>
            handlers[i].pc # "reading"

Undecodable(i) == ~handlers[i].frame.valid
Touched(i) == i \in Ids' /\ (i \notin Ids \/ handlers'[i] # handlers[i])
C13_Inv ==
    \A i \in Ids :
        Undecodable(i) =>
            /\ sent[i] = <<>>
            /\ handlers[i].takes = 0
            /\ handlers[i].pc \in {"reading", "hung", "done"}
C13_Step ==
    \A i \in 1..MaxFrames :
        (Touched(i) /\ Undecodable(i)') =>
            UNCHANGED <<readyState, socketConnected, remoteManagementConnected,
                        error, sample, isSampling, sent, intervals>>
\* C13: a frame that cannot be decoded (text that is no JSON, a Blob that
\* does not decode, a frame of neither kind) is dropped: no status is sent
\* for it, handling it changes neither the component state nor the socket,
\* and a later frame is still handled.
C13_UndecodableDropped == []C13_Inv /\ [][C13_Step]_vars
C13_Witness ==
    \E i, j \in Ids :
        /\ i < j
        /\ Undecodable(i) /\ handlers[i].pc = "hung"
        /\ handlers[j].outcome = "finished"
        /\ readyState = "OPEN"

RequestFailed(i) ==
    handlers[i].outcome \in {"rejected", "empty", "signFailed", "postFailed"}
C14_Step ==
    /\ \A i \in 1..MaxFrames :
           (Touched(i) /\ handlers'[i].frame.data.sample.present) =>
               UNCHANGED <<readyState, socketConnected,
                           remoteManagementConnected, error>>
    /\ (/\ readyState # "CONNECTING"
        /\ <<socketConnected, remoteManagementConnected, error>>' #
               <<socketConnected, remoteManagementConnected, error>>) =>
           \/ readyState' # readyState /\ readyState' \in {"FAILED", "CLOSED"}
           \/ \E i \in 1..MaxFrames :
                  /\ Processed(i)' /\ ~Processed(i)
                  /\ handlers'[i].frame.data.hello.present
\* C14: handling a sample request, failing or not, leaves socketConnected,
\* remoteManagementConnected and error unchanged and does not close the
\* socket; on an opened socket only a hello message and the close and error
\* handlers change them.
C14_RequestErrorsLeaveConnection == [][C14_Step]_vars
C14_Witness ==
    /\ readyState = "OPEN" /\ socketConnected /\ error = NoError
    /\ \E i \in Ids : handlers[i].outcome = "postFailed"
    /\ \E i \in Ids : handlers[i].outcome = "rejected"

\* C17: remoteManagementConnected implies socketConnected in every state:
\* once the close or error handler has marked the socket disconnected no
\* message handler that completes later sets remoteManagementConnected.
C17_ManagementImpliesSocket == remoteManagementConnected => socketConnected

\* C20: the upload of a request uses the hmacKey, path and label of that
\* same request, also when another sample request was handled while its
\* capture, signing or upload was pending.
C20_DetailsBoundToCycle ==
    \A i \in Ids :
        /\ handlers[i].signs > 0 =>
               handlers[i].signKey = handlers[i].frame.data.sample.hmacKey
        /\ handlers[i].posts > 0 =>
               /\ handlers[i].postPath = handlers[i].frame.data.sample.path
               /\ handlers[i].postLabel = handlers[i].frame.data.sample.label
C20_Witness ==
    \E i, j \in Ids :
        /\ i < j
        /\ handlers[i].posts > 0 /\ handlers[i].signKey = "k1"
        /\ Accepted(j) /\ handlers[j].details.hmacKey = "k2"
        /\ sample.hmacKey = "k2"

\* The measurements of the events fired while the timer was pending that
\* carried acceleration data, in the order they were fired.
RECURSIVE ExpectedValues(_)
ExpectedValues(log) ==
    IF log = <<>> THEN <<>>
    ELSE LET rest == ExpectedValues(SubSeq(log, 1, Len(log) - 1))
             last == log[Len(log)]
         IN  IF last.during /\ last.event.has
             THEN Append(rest, Measurement(last.event))
             ELSE rest
\* C15: takeSample resolves exactly once, when the timer elapses, with zero
\* or many events; the sample holds every event with acceleration data fired
\* before the timer elapsed, in arrival order, and no later event changes it.
C15_BoundedCapture ==
    /\ capture.resolves = (IF capture.timer = "elapsed" THEN 1 ELSE 0)
    /\ capture.values = ExpectedValues(capture.log)
C15_Witness ==
    /\ capture.timer = "elapsed"
    /\ Len(capture.values) = 2 /\ capture.values[1] # capture.values[2]
    /\ \E k \in 1..Len(capture.log) : ~capture.log[k].during /\ capture.log[k].event.has

\* The byte two hexadecimal digits stand for.
HexValue(c) == (CHOOSE n \in 1..16 : HexDigits[n] = c) - 1
FromHex(str) ==
    [k \in 1..(Len(str) \div 2) |->
        16 * HexValue(str[2 * k - 1]) + HexValue(str[2 * k])]
LowerHex == {HexDigits[n] : n \in 1..16}
\* C16: two calls of createSignature with the same key and an identical
\* payload return the identical string, and the string is the digest in
\* lowercase hexadecimal, two digits per byte.
C16_SignatureDeterministic ==
    \A a, b \in 1..Len(sgLog) :
        /\ (sgLog[a].key = sgLog[b].key /\ sgLog[a].data = sgLog[b].data) =>
               sgLog[a].signature = sgLog[b].signature
        /\ LET digest == Hmac(sgLog[a].key, Encode(sgLog[a].data))
               str == sgLog[a].signature
           IN  /\ Len(str) = 2 * Len(digest)
               /\ \A k \in 1..Len(str) : str[k] \in LowerHex
               /\ FromHex(str) = digest
C16_Witness ==
    /\ Len(sgLog) = 2
    /\ sgLog[1].key = sgLog[2].key /\ sgLog[1].data = sgLog[2].data
    /\ \E k \in 1..2 : Hmac(sgLog[1].key, Encode(sgLog[1].data))[k] < 16

FirstClickInTime ==
    permission.checks # <<>> /\ permission.checks[1].at < PermissionTimeoutMs
SettledChecks == {k \in 1..Len(permission.checks) : permission.checks[k].settled}
C18_PermissionWaitSettles ==
    /\ (permission.pc = "waiting" /\ permission.promise = "pending") =>
           \/ permission.timeout
           \/ \E k \in 1..Len(permission.checks) :
                  ~permission.checks[k].settled /\ permission.checks[k].outcome # "never"
    /\ (permission.promise = "rejected" /\ permission.reason = TimedOut) => permission.view # "sampling"

\* C19: every call of MicrophoneSensor.takeSample settles: it has been
\* rejected or resolved, or its timer or its WAV export is still pending,
\* also when an overlapping call has cleared the shared stream.
C19_MicrophoneSettles ==
    \A i \in 1..Len(microphone.calls) :
        microphone.calls[i].pc \in {"rejected", "resolved", "recording", "exporting"}

\* The intervals still armed.
Armed == {countdown.queue[k] : k \in 1..Len(countdown.queue)}
\* An armed interval no handler can clear any more: clearInterval is only
\* ever called with samplingInterval, which holds the id of the interval
\* created last.
Leaked(id) == id \in Armed /\ id # countdown.samplingInterval
\* A leaked interval stays leaked: it keeps ticking for good.
LeakIsForever ==
    [][\A id \in 1..MaxStarts : Leaked(id) => Leaked(id)']_vars
\* C21: the countdown never leaks: every armed interval can still be
\* cleared by an uploading or processing event or by its own remaining-time
\* check, also when a second samplingStarted arrived before the first
\* countdown ended, so at most one countdown interval keeps ticking.
C21_CountdownNeverLeaks ==
    /\ \A id \in Armed : ~Leaked(id)
    /\ Cardinality(Armed) <= 1

====
